---- MODULE Spec2Model ----
(***************************************************************************)
(* A model of search_utility (src/main.rs): a grep-like tool.  Config::new *)
(* parses the arguments and, with -r, resolves the target paths; main then *)
(* runs search_file on every path of config.file_paths, which reads the    *)
(* file line by line, evaluates pattern_in_line and should_print and       *)
(* prints through print_match.                                             *)
(*                                                                         *)
(* Text is modelled as sequences of Unicode scalar values (Rust chars),    *)
(* paths as sequences of path components.                                  *)
(***************************************************************************)
EXTENDS Integers, Sequences, FiniteSets, TLC

VARIABLES passed_args, config, fs, colorize, pc, file_idx, line_idx, stdout, opened

vars == <<passed_args, config, fs, colorize, pc, file_idx, line_idx, stdout, opened>>

(***************************************************************************)
(* Bounds of the model.                                                    *)
(***************************************************************************)
MaxLineLen == 3
MaxPatLen == 2
MaxTargets == 2
MaxLines == 2

\* '.', 'S', 's' and U+017F (LATIN SMALL LETTER LONG S)
Alphabet == {46, 83, 115, 383}

RECURSIVE SeqsUpTo(_, _)
SeqsUpTo(S, n) ==
    IF n = 0 THEN {<<>>}
    ELSE LET shorter == SeqsUpTo(S, n - 1)
         IN shorter \cup {Append(s, x) : s \in {t \in shorter : Len(t) = n - 1}, x \in S}

RECURSIVE Concat(_)
Concat(ss) == IF ss = <<>> THEN <<>> ELSE Head(ss) \o Concat(Tail(ss))

(***************************************************************************)
(* The regex crate, as search_file uses it: regex::escape, then            *)
(* RegexBuilder::new(..).case_insensitive(..).unicode(true).build().       *)
(***************************************************************************)
\* regex_syntax::is_meta_character: \ . + * ? ( ) | [ ] { } ^ $ # & - ~
MetaChars == {92, 46, 43, 42, 63, 40, 41, 124, 91, 93, 123, 125, 94, 36, 35, 38, 45, 126}

\* A plausible slip: the pattern is handed to the builder unescaped.
regex_escape_none(text) == text

\* regex::escape: every meta character is preceded by a backslash.
regex_escape(text) ==
    Concat([k \in 1..Len(text) |->
              IF text[k] \in MetaChars THEN <<92, text[k]>> ELSE <<text[k]>>])

\* The parser of the pattern language, for the constructs the model's
\* alphabet can spell: an escaped character is a literal, '.' is any
\* character but '\n', everything else is a literal.
RECURSIVE RegexParse(_)
RegexParse(src) ==
    IF src = <<>> THEN <<>>
    ELSE IF Head(src) = 92 /\ Len(src) >= 2
         THEN <<[kind |-> "lit", c |-> src[2]]>> \o RegexParse(Tail(Tail(src)))
    ELSE IF Head(src) = 46
         THEN <<[kind |-> "any", c |-> 0]>> \o RegexParse(Tail(src))
    ELSE <<[kind |-> "lit", c |-> Head(src)]>> \o RegexParse(Tail(src))

\* Unicode simple case folding as the regex crate applies it to a literal
\* under case_insensitive(true): the other members of the character's orbit.
CaseFoldSimple(c) ==
    CASE c = 83  -> {115, 383}
      [] c = 115 -> {83, 383}
      [] c = 383 -> {83, 115}
      [] c \in 65..90 -> {c + 32}
      [] c \in 97..122 -> {c - 32}
      [] OTHER -> {}

\* RegexBuilder::new(&regex::escape(pattern)).case_insensitive(ci).unicode(true).build()
BuildRegex(pattern, ci) ==
    [atoms |-> RegexParse(regex_escape(pattern)), case_insensitive |-> ci]

AtomMatches(re, atom, ch) ==
    IF atom.kind = "any" THEN ch # 10
    ELSE \/ ch = atom.c
         \/ re.case_insensitive /\ ch \in CaseFoldSimple(atom.c)

\* The regex matches line at the 1-based position i.
MatchAt(re, line, i) ==
    /\ i + Len(re.atoms) - 1 <= Len(line)
    /\ \A j \in 1..Len(re.atoms) : AtomMatches(re, re.atoms[j], line[i + j - 1])

\* Regex::is_match
is_match(re, line) == \E i \in 1..(Len(line) + 1) : MatchAt(re, line, i)

\* The leftmost match starting at or after start, 0 when there is none.
FindAt(re, line, start) ==
    LET hits == {i \in start..(Len(line) + 1) : MatchAt(re, line, i)}
    IN IF hits = {} THEN 0 ELSE CHOOSE i \in hits : \A k \in hits : i <= k

\* A plausible slip: the highlighted span is rebuilt from the pattern's
\* characters instead of the matched text.
red_of_pattern(re, text) ==
    <<27, 91, 51, 49, 109>> \o [k \in 1..Len(re.atoms) |-> re.atoms[k].c] \o <<27, 91, 48, 109>>

\* caps[0].red().to_string(): the colored crate wraps the text in
\* ESC[31m .. ESC[0m, or leaves it as it is when colouring is switched off
\* by the environment.
red(text) ==
    IF colorize THEN <<27, 91, 51, 49, 109>> \o text \o <<27, 91, 48, 109>> ELSE text

replacement(re, text) == red(text)

\* Regex::replace_all with the closure: the leftmost non-overlapping
\* matches from position pos on are replaced, the text between them kept.
\* After an empty match the search moves on by one character.
RECURSIVE replace_all(_, _, _)
replace_all(re, line, pos) ==
    IF pos > Len(line) + 1 THEN <<>>
    ELSE LET m == FindAt(re, line, pos)
             n == Len(re.atoms)
         IN IF m = 0 THEN SubSeq(line, pos, Len(line))
            ELSE SubSeq(line, pos, m - 1)
                 \o replacement(re, SubSeq(line, m, m + n - 1))
                 \o (IF n > 0 THEN replace_all(re, line, m + n)
                     ELSE IF m <= Len(line)
                          THEN <<line[m]>> \o replace_all(re, line, m + 1)
                          ELSE <<>>)

\* pattern_in_line(re, colored_output, line) -> (pattern_found, display_line)
pattern_in_line(re, colored_output, line) ==
    IF ~is_match(re, line) THEN <<FALSE, line>>
    ELSE IF ~colored_output THEN <<TRUE, line>>
    ELSE <<TRUE, replace_all(re, line, 1)>>

\* A plausible slip: the invert flag is ignored.
should_print_ignores_invert(invert_match, pattern_found) == pattern_found

should_print(invert_match, pattern_found) ==
    IF invert_match THEN ~pattern_found ELSE pattern_found


(***************************************************************************)
(* The file system the program runs against.  A path is the sequence of    *)
(* its components, a component the sequence of its characters.             *)
(*     f1            a regular file, its lines chosen per run              *)
(*     d/            a directory                                           *)
(*     d/x           a regular file                                        *)
(*     d/.h          a regular file with a dot-prefixed name               *)
(*     d/.g/c        a regular file in a dot-prefixed directory            *)
(*     d/p/y         a regular file in a directory that may be unreadable  *)
(*     no            names nothing                                         *)
(***************************************************************************)
P_f1 == << <<102, 49>> >>
P_d == << <<100>> >>
P_dx == << <<100>>, <<120>> >>
P_dh == << <<100>>, <<46, 104>> >>
P_dg == << <<100>>, <<46, 103>> >>
P_dgc == << <<100>>, <<46, 103>>, <<99>> >>
P_dp == << <<100>>, <<112>> >>
P_dpy == << <<100>>, <<112>>, <<121>> >>
P_no == << <<110, 111>> >>

RegularFiles == {P_f1, P_dx, P_dh, P_dgc, P_dpy}
Directories == {P_d, P_dg, P_dp}

\* The paths a run may name as targets.
Targets == {P_f1, P_d, P_dx, P_no}

Kind(path) ==
    IF path \in RegularFiles THEN "file"
    ELSE IF path \in Directories THEN "dir"
    ELSE "none"

\* The entries of a directory, in the order the directory lists them.
Children(path) ==
    CASE path = P_d -> <<P_dx, P_dh, P_dg, P_dp>>
      [] path = P_dg -> <<P_dgc>>
      [] path = P_dp -> <<P_dpy>>
      [] OTHER -> <<>>

OkLine(text) == [ok |-> TRUE, text |-> text]
\* A line that is not valid UTF-8, or a read that fails.
BadLine == [ok |-> FALSE, text |-> <<>>]

\* What BufReader::lines() yields for an opened path: the lines of a regular
\* file; reading an opened directory fails at once.
FileLines(path) == IF Kind(path) = "dir" THEN <<BadLine>> ELSE fs.lines[path]

\* str::starts_with
starts_with(text, prefix) ==
    Len(text) >= Len(prefix) /\ SubSeq(text, 1, Len(prefix)) = prefix

\* DirEntry::file_name: the last component of the entry's path.
file_name(path) == path[Len(path)]

\* WalkDir::new(root): the root, then, depth first, everything below it.  An
\* unreadable directory is yielded itself and then yields an error in place
\* of its entries.
RECURSIVE WalkDir(_)
WalkDir(path) ==
    <<[ok |-> TRUE, path |-> path]>>
    \o (IF Kind(path) # "dir" THEN <<>>
        ELSE IF path \in fs.unreadable THEN <<[ok |-> FALSE, path |-> path]>>
        ELSE Concat([k \in 1..Len(Children(path)) |-> WalkDir(Children(path)[k])]))

(***************************************************************************)
(* recursively_find_all_files                                              *)
(***************************************************************************)
\* The files one walk contributes, or the first error it meets (lines 104-116).
RECURSIVE WalkEntries(_, _, _)
WalkEntries(entries, k, acc) ==
    IF k > Len(entries) THEN [ok |-> TRUE, files |-> acc]
    ELSE LET entry == entries[k]
         IN IF ~entry.ok THEN [ok |-> FALSE, files |-> <<>>]
            ELSE IF Kind(entry.path) = "file" /\ ~starts_with(file_name(entry.path), <<46>>)
                 THEN WalkEntries(entries, k + 1, Append(acc, entry.path))
            ELSE WalkEntries(entries, k + 1, acc)

\* The loop over the given paths (lines 93-118).  lenient is FALSE in the
\* program: a failure returns Err at once.
RECURSIVE ResolveFrom(_, _, _, _)
ResolveFrom(directories, k, file_paths, lenient) ==
    IF k > Len(directories) THEN [ok |-> TRUE, files |-> file_paths, err |-> "", at |-> <<>>]
    ELSE LET directory == directories[k]
         IN IF Kind(directory) = "none"
            THEN IF lenient THEN ResolveFrom(directories, k + 1, file_paths, lenient)
                 ELSE [ok |-> FALSE, files |-> <<>>,
                       err |-> "Error: could not get metadata for", at |-> directory]
            ELSE IF Kind(directory) = "file"
            THEN ResolveFrom(directories, k + 1, Append(file_paths, directory), lenient)
            ELSE LET w == WalkEntries(WalkDir(directory), 1, file_paths)
                 IN IF w.ok THEN ResolveFrom(directories, k + 1, w.files, lenient)
                    ELSE IF lenient THEN ResolveFrom(directories, k + 1, file_paths, lenient)
                    ELSE [ok |-> FALSE, files |-> <<>>,
                          err |-> "Error: could not read directory", at |-> directory]

\* A plausible slip: a root that cannot be resolved is skipped and the files
\* of the other roots are returned.
recursively_find_all_files_partial(directories) ==
    ResolveFrom(directories, 1, <<>>, TRUE)

recursively_find_all_files(directories) == ResolveFrom(directories, 1, <<>>, FALSE)

(***************************************************************************)
(* Config::new                                                             *)
(***************************************************************************)
DefaultConfig ==
    [pattern |-> <<>>, file_paths |-> <<>>, case_insensitive |-> FALSE,
     print_line_numbers |-> FALSE, invert_match |-> FALSE, recursive_search |-> FALSE,
     print_filenames |-> FALSE, colored_output |-> FALSE, help |-> FALSE]

\* args.opts: the option flags among the arguments; args.non_options: the
\* other arguments in their order (the pattern, then the paths).
ConfigNew(args) ==
    LET parsed == [DefaultConfig EXCEPT
                     !.case_insensitive = "-i" \in args.opts,
                     !.print_line_numbers = "-n" \in args.opts,
                     !.invert_match = "-v" \in args.opts,
                     !.recursive_search = "-r" \in args.opts,
                     !.print_filenames = "-f" \in args.opts,
                     !.colored_output = "-c" \in args.opts,
                     !.help = "-h" \in args.opts]
        non_options == args.non_options
        given == [parsed EXCEPT !.pattern = non_options[1],
                                !.file_paths = Tail(non_options)]
        found == recursively_find_all_files(given.file_paths)
    IN IF parsed.help THEN [ok |-> TRUE, config |-> parsed, err |-> "", at |-> <<>>]
       ELSE IF non_options = <<>>
            THEN [ok |-> FALSE, config |-> parsed, err |-> "Error: No pattern provided", at |-> <<>>]
       ELSE IF Len(non_options) < 2
            THEN [ok |-> FALSE, config |-> parsed, err |-> "Error: No file paths provided", at |-> <<>>]
       ELSE IF ~given.recursive_search
            THEN [ok |-> TRUE, config |-> given, err |-> "", at |-> <<>>]
       ELSE IF found.ok
            THEN [ok |-> TRUE, config |-> [given EXCEPT !.file_paths = found.files],
                  err |-> "", at |-> <<>>]
       ELSE [ok |-> FALSE, config |-> parsed, err |-> found.err, at |-> found.at]

(***************************************************************************)
(* Standard output: one entry per println!.                                *)
(***************************************************************************)
\* print_match: the components named in shown, joined by ": ".
print_match(cfg, file_path, line_number, line) ==
    [kind |-> "match", file |-> file_path, line_number |-> line_number, line |-> line,
     shown |-> (IF cfg.print_filenames THEN <<"file">> ELSE <<>>)
               \o (IF cfg.print_line_numbers THEN <<"line_number">> ELSE <<>>)
               \o <<"line">>]

ErrorEntry(msg, file_path, line_number) ==
    [kind |-> msg, file |-> file_path, line_number |-> line_number, line |-> <<>>,
     shown |-> <<>>]

\* display_help
HelpEntry == ErrorEntry("Usage: grep [OPTIONS] <pattern> <files...>", <<>>, 0)

\* A plausible slip: the lines are collected and dropped when the scan fails.
println_error_only(out, e) == <<e>>

\* println!("{e}") in main's Err arm: the message follows what was printed.
println_error(out, e) == Append(out, e)

\* A plausible slip: the enumerate index is used as it is.
line_number_zero_based(i) == i

\* i + 1 in search_file: i counts the lines read before this one.
line_number_of(i) == i + 1

\* A plausible slip: main goes on with the next path after a failure.
main_on_error_continue(idx) == [pc |-> "loop", file_idx |-> idx + 1]

\* main's Err arm: return.
main_on_error(idx) == [pc |-> "exit", file_idx |-> idx]

\* The body of search_file's loop for a decoded line (lines 198-204).
LoopBody(cfg, file_path, i, line) ==
    LET re == BuildRegex(cfg.pattern, cfg.case_insensitive)
        res == pattern_in_line(re, cfg.colored_output, line)
    IN IF should_print(cfg.invert_match, res[1])
       THEN <<print_match(cfg, file_path, line_number_of(i), res[2])>>
       ELSE <<>>


(***************************************************************************)
(* The runs of the program.                                                *)
(***************************************************************************)
\* The pattern and the lines of the whole-program runs: "s", and the lines
\* "s" and "S" or a line that cannot be decoded.
ProgPattern == <<115>>
ProgLines == {OkLine(<<115>>), OkLine(<<83>>), BadLine}

\* The lines of the files whose content is the same in every run.
FixedLines == <<OkLine(<<83>>), OkLine(<<115>>)>>

FileSystems(contents) ==
    {[lines |-> [f \in RegularFiles |-> IF f = P_f1 THEN c ELSE FixedLines],
      unreadable |-> u] : c \in contents, u \in {{}, {P_dp}}}

\* The option flags a run is given: any of -i, -v, -r, with or without the
\* three flags that only shape the printed record; or -h.
OptionSets ==
    {a \cup b : a \in SUBSET {"-i", "-v", "-r"}, b \in {{}, {"-n", "-f", "-c"}}} \cup {{"-h"}}

\* Whether the environment lets the colored crate emit colours; it is read
\* only when -c is given.
ColourSwitch(opts) == IF "-c" \in opts THEN BOOLEAN ELSE {TRUE}

\* The state as the process starts: its arguments, the file system, and
\* the environment's colour switch.
Init ==
    /\ passed_args \in
         [opts : OptionSets,
          non_options : {<<>>} \cup {<<ProgPattern>> \o t : t \in SeqsUpTo(Targets, MaxTargets)}]
    /\ fs \in FileSystems(SeqsUpTo(ProgLines, MaxLines))
    /\ colorize \in ColourSwitch(passed_args.opts)
    /\ config = DefaultConfig
    /\ pc = "start"
    /\ file_idx = 0
    /\ line_idx = 0
    /\ stdout = <<>>
    /\ opened = <<>>

\* main, lines 124-137: Config::new; an error prints the message and the
\* help, -h prints the help; otherwise the loop over the paths begins.
MainConfig ==
    /\ pc = "start"
    /\ LET r == ConfigNew(passed_args)
       IN IF ~r.ok
          THEN /\ stdout' = <<ErrorEntry(r.err, r.at, 0), HelpEntry>>
               /\ pc' = "exit"
               /\ UNCHANGED <<config, file_idx>>
          ELSE IF r.config.help
          THEN /\ stdout' = <<HelpEntry>>
               /\ pc' = "exit"
               /\ config' = r.config
               /\ UNCHANGED file_idx
          ELSE /\ config' = r.config
               /\ pc' = "loop"
               /\ file_idx' = 1
               /\ UNCHANGED stdout
    /\ UNCHANGED <<passed_args, fs, colorize, line_idx, opened>>

\* search_file, lines 177-194: File::open succeeds (a regular file; a
\* directory where the platform opens directories) and the regex is built.
OpenOk ==
    /\ pc = "loop"
    /\ file_idx <= Len(config.file_paths)
    /\ Kind(config.file_paths[file_idx]) \in {"file", "dir"}
    /\ opened' = Append(opened, config.file_paths[file_idx])
    /\ pc' = "reading"
    /\ line_idx' = 0
    /\ UNCHANGED <<passed_args, config, fs, colorize, file_idx, stdout>>

\* search_file, lines 177-180, and main, lines 142-145: File::open fails
\* (nothing has this name; a directory where the platform refuses to open
\* directories), the error is printed and main returns.
OpenErr ==
    /\ pc = "loop"
    /\ file_idx <= Len(config.file_paths)
    /\ Kind(config.file_paths[file_idx]) \in {"none", "dir"}
    /\ opened' = Append(opened, config.file_paths[file_idx])
    /\ stdout' = println_error(stdout,
                   ErrorEntry("Could not open file", config.file_paths[file_idx], 0))
    /\ pc' = main_on_error(file_idx).pc
    /\ file_idx' = main_on_error(file_idx).file_idx
    /\ UNCHANGED <<passed_args, config, fs, colorize, line_idx>>

\* search_file, lines 196-204: the next line decodes; it is evaluated and,
\* if eligible, printed.
ReadLineOk ==
    /\ pc = "reading"
    /\ line_idx < Len(FileLines(config.file_paths[file_idx]))
    /\ FileLines(config.file_paths[file_idx])[line_idx + 1].ok
    /\ stdout' = stdout \o LoopBody(config, config.file_paths[file_idx], line_idx,
                                    FileLines(config.file_paths[file_idx])[line_idx + 1].text)
    /\ line_idx' = line_idx + 1
    /\ UNCHANGED <<passed_args, config, fs, colorize, pc, file_idx, opened>>

\* search_file, line 205, and main, lines 142-145: the next line cannot be
\* read; the error names the line and main returns.
ReadLineErr ==
    /\ pc = "reading"
    /\ line_idx < Len(FileLines(config.file_paths[file_idx]))
    /\ ~FileLines(config.file_paths[file_idx])[line_idx + 1].ok
    /\ stdout' = println_error(stdout,
                   ErrorEntry("Could not read line", config.file_paths[file_idx],
                              line_number_of(line_idx)))
    /\ pc' = main_on_error(file_idx).pc
    /\ file_idx' = main_on_error(file_idx).file_idx
    /\ UNCHANGED <<passed_args, config, fs, colorize, line_idx, opened>>

\* search_file, line 208, and main, line 141: the file is read to its end
\* and main goes on with the next path.
ReadEof ==
    /\ pc = "reading"
    /\ line_idx = Len(FileLines(config.file_paths[file_idx]))
    /\ pc' = "loop"
    /\ file_idx' = file_idx + 1
    /\ line_idx' = 0
    /\ UNCHANGED <<passed_args, config, fs, colorize, stdout, opened>>

\* main, lines 139-148: every path has been searched.
MainDone ==
    /\ pc = "loop"
    /\ file_idx > Len(config.file_paths)
    /\ pc' = "exit"
    /\ UNCHANGED <<passed_args, config, fs, colorize, file_idx, line_idx, stdout, opened>>

Next == MainConfig \/ OpenOk \/ OpenErr \/ ReadLineOk \/ ReadLineErr \/ ReadEof \/ MainDone

Spec == Init /\ [][Next]_vars

(***************************************************************************)
(* The evaluation of one line: search_file on a file of one line, for      *)
(* every pattern and line over the alphabet and every setting of the       *)
(* flags that decide the match, the eligibility and the display text.      *)
(***************************************************************************)
InitLine ==
    /\ \E p \in SeqsUpTo(Alphabet, MaxPatLen), o \in SUBSET {"-i", "-v", "-c"} :
         /\ passed_args = [opts |-> o, non_options |-> <<p, P_f1>>]
         /\ config = ConfigNew([opts |-> o, non_options |-> <<p, P_f1>>]).config
         /\ colorize \in ColourSwitch(o)
    /\ \E l \in SeqsUpTo(Alphabet, MaxLineLen) :
         fs = [lines |-> [f \in RegularFiles |-> IF f = P_f1 THEN <<OkLine(l)>> ELSE FixedLines],
               unreadable |-> {}]
    /\ pc = "reading"
    /\ file_idx = 1
    /\ line_idx = 0
    /\ stdout = <<>>
    /\ opened = <<P_f1>>

NextLine == ReadLineOk \/ ReadEof

SpecLine == InitLine /\ [][NextLine]_vars


(***************************************************************************)
(* Notions the properties are stated in.                                   *)
(***************************************************************************)
\* needle occurs in hay as a contiguous subsequence.
Contains(hay, needle) ==
    \E i \in 1..(Len(hay) + 1) :
        /\ i + Len(needle) - 1 <= Len(hay)
        /\ \A j \in 1..Len(needle) : hay[i + j - 1] = needle[j]

\* char::to_lowercase, for characters with a one-character lowercase form:
\* U+017F is a lowercase letter and maps to itself.
Lowercase(text) == [k \in 1..Len(text) |-> IF text[k] \in 65..90 THEN text[k] + 32 ELSE text[k]]

\* Unicode simple case folding (CaseFolding.txt, status C and S): U+017F
\* folds to 's'.
SimpleFold(text) ==
    [k \in 1..Len(text) |->
        IF text[k] \in 65..90 THEN text[k] + 32 ELSE IF text[k] = 383 THEN 115 ELSE text[k]]

\* The display text with every ESC[31m and ESC[0m removed.
RECURSIVE StripMarkers(_)
StripMarkers(text) ==
    IF text = <<>> THEN <<>>
    ELSE IF Len(text) >= 5 /\ SubSeq(text, 1, 5) = <<27, 91, 51, 49, 109>>
         THEN StripMarkers(SubSeq(text, 6, Len(text)))
    ELSE IF Len(text) >= 4 /\ SubSeq(text, 1, 4) = <<27, 91, 48, 109>>
         THEN StripMarkers(SubSeq(text, 5, Len(text)))
    ELSE <<Head(text)>> \o StripMarkers(Tail(text))

\* In a run of SpecLine: the line, the pattern, and whether the line has
\* been evaluated and was emitted.
TheLine == fs.lines[P_f1][1].text
ThePattern == config.pattern
Evaluated == ~(pc = "reading" /\ line_idx = 0)
Emitted == stdout # <<>>

\* C1 as stated: without -v a line is emitted iff it contains the pattern,
\* compared exactly, or, with -i, compared on lowercased copies of both.
C1_LowercaseContainment ==
    (Evaluated /\ ~config.invert_match) =>
        (Emitted <=> IF config.case_insensitive
                     THEN Contains(Lowercase(TheLine), Lowercase(ThePattern))
                     ELSE Contains(TheLine, ThePattern))

\* C1, amended: without -v a line is emitted iff it contains the pattern,
\* every pattern character taken literally, compared exactly, or, with -i,
\* compared on copies of both folded by Unicode simple case folding.
C1_SimpleFoldContainment ==
    (Evaluated /\ ~config.invert_match) =>
        (Emitted <=> IF config.case_insensitive
                     THEN Contains(SimpleFold(TheLine), SimpleFold(ThePattern))
                     ELSE Contains(TheLine, ThePattern))

\* A line emitted only thanks to the case rule, for a pattern that holds
\* the meta character '.'.
C1_Witness ==
    /\ Evaluated /\ ~config.invert_match /\ config.case_insensitive
    /\ Emitted
    /\ ~Contains(TheLine, ThePattern)
    /\ \E k \in 1..Len(ThePattern) : ThePattern[k] = 46

\* C2: for a fixed line, pattern and case rule, the line is eligible under
\* -v exactly when it is not eligible without -v; what is emitted is
\* matched XOR invert.
C2_InvertComplement ==
    Evaluated =>
        LET matched == is_match(BuildRegex(ThePattern, config.case_insensitive), TheLine)
            with == LoopBody([config EXCEPT !.invert_match = TRUE], P_f1, 0, TheLine) # <<>>
            without == LoopBody([config EXCEPT !.invert_match = FALSE], P_f1, 0, TheLine) # <<>>
        IN /\ with # without
           /\ Emitted = (IF config.invert_match THEN with ELSE without)
           /\ Emitted = (matched # config.invert_match)

\* A line without the pattern, emitted under -v.
C2_Witness ==
    /\ Evaluated /\ config.invert_match /\ Emitted
    /\ ~is_match(BuildRegex(ThePattern, config.case_insensitive), TheLine)

\* C3: in every mode the display text of pattern_in_line, its highlight
\* markers removed, is the line itself; so is every emitted text.
C3_StripRoundTrip ==
    Evaluated =>
        /\ StripMarkers(pattern_in_line(BuildRegex(ThePattern, config.case_insensitive),
                                        config.colored_output, TheLine)[2]) = TheLine
        /\ \A k \in 1..Len(stdout) : StripMarkers(stdout[k].line) = TheLine

\* A highlighted line whose matched span differs from the pattern in case.
C3_Witness ==
    /\ Evaluated /\ Emitted /\ config.colored_output /\ colorize /\ config.case_insensitive
    /\ ThePattern # <<>>
    /\ ~Contains(TheLine, ThePattern)
    /\ stdout[1].line # TheLine


(***************************************************************************)
(* Properties of whole runs.                                               *)
(***************************************************************************)
ScanErrors == {"Could not open file", "Could not read line"}

\* search_file has failed for some file.
ScanFailed == \E k \in 1..Len(stdout) : stdout[k].kind \in ScanErrors

\* The run was started with -r and a pattern and paths to resolve.
Resolving ==
    /\ "-r" \in passed_args.opts
    /\ Len(passed_args.non_options) >= 2

Resolved == Resolving /\ pc # "start"

IsPrefixOf(a, b) == Len(a) <= Len(b) /\ SubSeq(b, 1, Len(a)) = a

\* The line is eligible under the run's flags.
Eligible(text) ==
    (IF config.case_insensitive
     THEN Contains(SimpleFold(text), SimpleFold(config.pattern))
     ELSE Contains(text, config.pattern)) # config.invert_match

\* <<file, line number>> of the eligible lines among the first n lines of
\* the k-th path of the file list.
RECURSIVE EligiblePairs(_, _)
EligiblePairs(k, n) ==
    IF n = 0 THEN <<>>
    ELSE EligiblePairs(k, n - 1)
         \o (LET l == FileLines(config.file_paths[k])[n]
             IN IF l.ok /\ Eligible(l.text) THEN <<<<config.file_paths[k], n>>>> ELSE <<>>)

\* The pairs of the first k paths of the file list, each read to its end.
RECURSIVE WholeFiles(_)
WholeFiles(k) ==
    IF k = 0 THEN <<>>
    ELSE WholeFiles(k - 1) \o EligiblePairs(k, Len(FileLines(config.file_paths[k])))

\* The pairs of the paths before the k-th, read to their ends, and of the
\* first n lines of the k-th.
PairsUpTo(k, n) ==
    IF k = 0 THEN <<>>
    ELSE IF k > Len(config.file_paths) THEN WholeFiles(Len(config.file_paths))
    ELSE WholeFiles(k - 1) \o EligiblePairs(k, n)

\* <<file, line number>> of the emitted lines among the entries.
RECURSIVE MatchPairs(_)
MatchPairs(out) ==
    IF out = <<>> THEN <<>>
    ELSE (IF Head(out).kind = "match" THEN <<<<Head(out).file, Head(out).line_number>>>> ELSE <<>>)
         \o MatchPairs(Tail(out))

\* C4 as stated: the resolved file list names no file twice.
C4_NoDuplicates ==
    Resolved =>
        \A i, j \in 1..Len(config.file_paths) :
            config.file_paths[i] = config.file_paths[j] => i = j

\* C5 as stated: without -r a directory among the targets produces no error.
C5_DirectorySkipped ==
    ~config.recursive_search =>
        \A k \in 1..Len(stdout) :
            ~(stdout[k].kind \in ScanErrors /\ Kind(stdout[k].file) = "dir")

\* C6 as stated: under -r no component of a resolved path, the file's name
\* or a directory on the way to it, begins with '.'.
C6_NoHiddenEntries ==
    Resolved =>
        \A k \in 1..Len(config.file_paths) :
            \A j \in 1..Len(config.file_paths[k]) :
                ~starts_with(config.file_paths[k][j], <<46>>)

\* C7: once search_file has failed, no further file is opened and nothing
\* further is printed.
C7_FailFast == [][ScanFailed => (opened' = opened /\ stdout' = stdout)]_vars

\* search_file has failed for a path that is not the last of the list.
C7_Witness ==
    /\ ScanFailed
    /\ Len(opened) < Len(config.file_paths)
    /\ Len(opened) >= 1

\* Under -r: some given path has no metadata, or a walk meets a directory
\* it cannot read.
ResolutionFails ==
    /\ Resolving
    /\ "-h" \notin passed_args.opts
    /\ \E k \in 2..Len(passed_args.non_options) :
          \/ Kind(passed_args.non_options[k]) = "none"
          \/ /\ Kind(passed_args.non_options[k]) = "dir"
             /\ \E u \in fs.unreadable : IsPrefixOf(passed_args.non_options[k], u)

\* C8: if resolution fails under -r, there is no file list, no file is ever
\* opened and no line ever emitted; the run prints the error and the help.
C8_ResolutionAllOrNothing ==
    /\ pc = "start" => (opened = <<>> /\ stdout = <<>>)
    /\ ResolutionFails =>
          /\ opened = <<>>
          /\ config.file_paths = <<>>
          /\ \A k \in 1..Len(stdout) : stdout[k].kind # "match"
          /\ pc # "start" => (pc = "exit" /\ Len(stdout) = 2 /\ stdout[2] = HelpEntry)

\* Resolution has failed on a later root although the first root is a
\* regular file with eligible lines.
C8_Witness ==
    /\ ResolutionFails /\ pc = "exit"
    /\ passed_args.non_options[2] = P_f1
    /\ \E n \in 1..Len(fs.lines[P_f1]) :
          fs.lines[P_f1][n].ok /\ SimpleFold(fs.lines[P_f1][n].text) = <<115>>
    /\ "-v" \notin passed_args.opts

C10_OutputKeptOnFailure ==
    ScanFailed =>
        LET e == stdout[Len(stdout)]
            k == Len(opened)
        IN /\ e.kind \in ScanErrors
           /\ e.file = config.file_paths[k]
           /\ \A i \in 1..(Len(stdout) - 1) : stdout[i].kind = "match"
           /\ MatchPairs(stdout)
                = PairsUpTo(k, IF e.kind = "Could not read line" THEN e.line_number - 1 ELSE 0)
           /\ \A i \in 1..(Len(stdout) - 1) :
                 StripMarkers(stdout[i].line)
                     = FileLines(stdout[i].file)[stdout[i].line_number].text

\* A scan failed after lines of an earlier file and of the failing file
\* had been printed.
C10_Witness ==
    /\ ScanFailed
    /\ Len(opened) = 2
    /\ stdout[Len(stdout)].kind = "Could not read line"
    /\ stdout[Len(stdout)].line_number = 2
    /\ \E i, j \in 1..(Len(stdout) - 1) :
          /\ stdout[i].file = config.file_paths[1]
          /\ stdout[j].file = config.file_paths[2]
          /\ config.file_paths[1] # config.file_paths[2]

====
